---- MODULE Spec2Model ----
(***************************************************************************)
(* Shamir secret sharing over image arrays: the finite field primitives    *)
(* (core/field_math.py) and the split / reconstruct algorithms             *)
(* (core/shamir.py).                                                       *)
(*                                                                         *)
(* An array is a record [shape, data]: shape is the numpy shape tuple and  *)
(* data the elements in row-major order. Every numpy operation used by the *)
(* code is element-wise, so it acts on data position by position.          *)
(* A call's outcome is Ret(v) (the value returned) or Raise(e) (the        *)
(* exception that leaves the function).                                    *)
(***************************************************************************)
EXTENDS Integers, Sequences, FiniteSets, TLC

\* ---------------------------------------------------------------- bounds
\* arguments of is_prime / next_prime range over -MaxNeg..MaxInt
MaxNeg == 3
MaxInt == 40
\* modinv is called with a in -MaxA..MaxA and p in 2..MaxMod
MaxA == 16
MaxMod == 8

\* split is called with n in 1..MaxN, k in 1..MaxN + 1, prime in 2..MaxPrime
MaxN == 3
MaxPrime == 5
\* arrays hold at most MaxLen elements, each in -MaxNegVal..MaxVal
MaxLen == 2
MaxNegVal == 1
MaxVal == 5
\* lagrange_coeffs_at_zero and reconstruct_from_shares are called directly
\* with at most MaxShares x-coordinates in 0..MaxX and at most MaxShares
\* one-element share arrays holding a value in 0..MaxShareVal
MaxShares == 3
MaxX == 4
MaxShareVal == 3
\* validate_shares_compatible is called with at most MaxMetaShares shares;
\* cmd_reconstruct loads at most MaxFiles share files, each with x in
\* 1..MaxFileX, prime in 2..MaxFilePrime and one element in 0..MaxFileVal
MaxMetaShares == 3
MaxFiles == 2
MaxFileX == 2
MaxFilePrime == 3
MaxFileVal == 1
\* at the widths of numpy: split into n <= MaxWideN shares, reconstruction
\* from shares with x in 1..MaxWideX
MaxWideN == 3
MaxWideX == 3
\* cmd_split on an image with pixel values in 0..MaxPixel, --n and --k in
\* 1..MaxCmdN, --prime absent or in 2..MaxCmdPrime
MaxPixel == 4
MaxCmdN == 2
MaxCmdPrime == 4

\* ------------------------------------------------------------- outcomes
Ret(v) == [exc |-> "none", val |-> v]
Raise(e) == [exc |-> e]
\* a call not made, or not made yet
NotYet == [exc |-> "not called"]

\* ------------------------------------------------- core/field_math.py
\* the while loop of is_prime, entered with i = 3
RECURSIVE is_prime_loop(_, _)
\* (variant: the loop bound written  i * i < n)
RECURSIVE is_prime_loop_strict(_, _)
is_prime_loop_strict(n, i) ==
    IF i * i < n
    THEN IF n % i = 0 THEN FALSE ELSE is_prime_loop_strict(n, i + 2)
    ELSE TRUE

is_prime_loop(n, i) ==
    IF i * i <= n
    THEN IF n % i = 0 THEN FALSE ELSE is_prime_loop(n, i + 2)
    ELSE TRUE

is_prime(n) ==
    IF n < 2 THEN FALSE
    ELSE IF n = 2 THEN TRUE
    ELSE IF n % 2 = 0 THEN FALSE
    ELSE is_prime_loop(n, 3)

\* the while loop of next_prime
RECURSIVE next_prime_loop(_)
next_prime_loop(candidate) ==
    IF ~is_prime(candidate) THEN next_prime_loop(candidate + 1) ELSE candidate

\* (variant: the scan started at n instead of n + 1)
next_prime_from_n(n) == next_prime_loop(n)

next_prime(n) == next_prime_loop(n + 1)

\* the extended Euclid loop of modinv and its final  return lm % p
RECURSIVE modinv_loop(_, _, _, _, _)
\* (variant: the final  return lm  without the reduction mod p)
RECURSIVE modinv_loop_noreduce(_, _, _, _, _)
modinv_loop_noreduce(lm, low, hm, high, p) ==
    IF low > 1
    THEN LET r == high \div low
             nm == hm - lm * r
             new == high - low * r
         IN modinv_loop_noreduce(nm, new, lm, low, p)
    ELSE lm

modinv_loop(lm, low, hm, high, p) ==
    IF low > 1
    THEN LET r == high \div low
             nm == hm - lm * r
             new == high - low * r
         IN modinv_loop(nm, new, lm, low, p)
    ELSE lm % p

\* (variant: the zero test made before the reduction  a = int(a) % p)
modinv_zero_test_first(a, p) ==
    IF a = 0
    THEN Raise("ZeroDivisionError")
    ELSE Ret(modinv_loop(1, (a % p) % p, 0, p, p))

\* (variant: 0 returned for a = 0 mod p instead of the raise)
modinv_zero_returns_zero(a, p) ==
    IF a % p = 0
    THEN Ret(0)
    ELSE Ret(modinv_loop(1, (a % p) % p, 0, p, p))

modinv(a, p) ==
    LET a1 == a % p
    IN IF a1 = 0
       THEN Raise("ZeroDivisionError")
       ELSE Ret(modinv_loop(1, a1 % p, 0, p, p))

\* (variant: the numerator multiplied by xj instead of -xj)
RECURSIVE lagrange_inner_plus_xj(_, _, _, _, _, _)
lagrange_inner_plus_xj(xs, p, i, j, num, den) ==
    IF j > Len(xs) THEN <<num, den>>
    ELSE IF j = i THEN lagrange_inner_plus_xj(xs, p, i, j + 1, num, den)
    ELSE lagrange_inner_plus_xj(xs, p, i, j + 1,
                                (num * xs[j]) % p,
                                (den * (xs[i] - xs[j])) % p)

\* lagrange_coeffs_at_zero: the inner loop over j for one i, giving <<num, den>>
RECURSIVE lagrange_inner(_, _, _, _, _, _)
lagrange_inner(xs, p, i, j, num, den) ==
    IF j > Len(xs) THEN <<num, den>>
    ELSE IF j = i THEN lagrange_inner(xs, p, i, j + 1, num, den)
    ELSE lagrange_inner(xs, p, i, j + 1,
                        (num * (0 - xs[j])) % p,
                        (den * (xs[i] - xs[j])) % p)

\* lagrange_coeffs_at_zero: the outer loop over i, appending to coeffs; a raise
\* of modinv leaves the function
RECURSIVE lagrange_outer(_, _, _, _)
lagrange_outer(xs, p, i, coeffs) ==
    IF i > Len(xs) THEN Ret(coeffs)
    ELSE LET nd == lagrange_inner(xs, p, i, 1, 1, 1)
             inv_den == modinv(nd[2], p)
         IN IF inv_den.exc # "none"
            THEN inv_den
            ELSE lagrange_outer(xs, p, i + 1,
                                Append(coeffs, (nd[1] * inv_den.val) % p))

lagrange_coeffs_at_zero(xs, p) ==
    lagrange_outer([i \in 1..Len(xs) |-> xs[i] % p], p, 1, <<>>)

\* ------------------------------------------------------ core/shamir.py
\* numpy helpers: number of elements of a shape, np.max, astype
RECURSIVE shape_size(_)
shape_size(shape) ==
    IF shape = <<>> THEN 1 ELSE Head(shape) * shape_size(Tail(shape))

np_max(data) == CHOOSE m \in {data[i] : i \in 1..Len(data)} :
                    \A i \in 1..Len(data) : data[i] <= m

astype_uint8(v) == v % 256
astype_uint16(v) == v % 65536
\* astype(np.uint32) is v mod 2^32; every integer of the model lies in
\* [0, 2^31), where it leaves the value as it is
astype_uint32(v) == v

\* split: the loop  for j in range(k)  at one array position, for share x;
\* c[j + 1] is coeffs[j] at that position
RECURSIVE eval_loop(_, _, _, _, _, _)
eval_loop(c, x, prime, j, y, x_pow) ==
    IF j >= Len(c) THEN y
    ELSE eval_loop(c, x, prime, j + 1,
                   (y + c[j + 1] * x_pow) % prime, (x_pow * x) % prime)

\* coeffs[0..k-1] at position i: the secret, then the k - 1 values drawn
coeffs_at(data, rnd, k, i) ==
    [j \in 1..k |-> IF j = 1 THEN data[i] ELSE rnd[j - 1][i]]

\* the arrays rng.integers(0, prime, size=shape) can return for j = 1..k-1
Draws(size, k, prime) == [1..(k - 1) -> [1..size -> 0..(prime - 1)]]

\* (variant: the threshold check written  k <= n  without the lower bound)
split_checks_no_lower_bound(img_array, n, k, prime) ==
    IF ~(k <= n) THEN "ValueError"
    ELSE IF np_max(img_array.data) >= prime THEN "ValueError"
    ELSE IF ~(\/ Len(img_array.shape) = 2
              \/ (Len(img_array.shape) = 3 /\ img_array.shape[3] = 3))
    THEN "ValueError"
    ELSE "none"

\* split: the checks made before any coefficient is drawn
split_checks(img_array, n, k, prime) ==
    IF ~(2 <= k /\ k <= n) THEN "ValueError"
    ELSE IF np_max(img_array.data) >= prime THEN "ValueError"
    ELSE IF ~(\/ Len(img_array.shape) = 2
              \/ (Len(img_array.shape) = 3 /\ img_array.shape[3] = 3))
    THEN "ValueError"
    ELSE "none"

split_image_into_shares(img_array, n, k, prime, rnd) ==
    IF split_checks(img_array, n, k, prime) # "none"
    THEN Raise(split_checks(img_array, n, k, prime))
    ELSE Ret([x \in 1..n |->
                [shape |-> img_array.shape,
                 dtype |-> "uint32",
                 data |-> [i \in 1..Len(img_array.data) |->
                            astype_uint32(
                              eval_loop(coeffs_at(img_array.data, rnd, k, i),
                                        x, prime, 0, 0, 1))]]])

\* reconstruct: the loop over zip(lagrange_coeffs, share_arrays) at position i
RECURSIVE accum_loop(_, _, _, _, _, _)
accum_loop(lagrange_coeffs, share_arrays, prime, i, t, accum) ==
    IF t > Len(lagrange_coeffs) \/ t > Len(share_arrays) THEN accum
    ELSE LET y_int == share_arrays[t].data[i] % prime
             term == (y_int * lagrange_coeffs[t]) % prime
         IN accum_loop(lagrange_coeffs, share_arrays, prime, i, t + 1,
                       IF t = 1 THEN term ELSE (accum + term) % prime)

\* reconstruct: what follows the two length checks
reconstruct_interpolate(share_arrays, xs, prime) ==
    LET lagrange_coeffs == lagrange_coeffs_at_zero(xs, prime)
    IN IF lagrange_coeffs.exc # "none" THEN lagrange_coeffs
       ELSE
         LET secret == [i \in 1..Len(share_arrays[1].data) |->
                          accum_loop(lagrange_coeffs.val, share_arrays,
                                     prime, i, 1, 0) % prime]
             max_val == np_max(secret)
         IN IF max_val <= 255
            THEN Ret([shape |-> share_arrays[1].shape, dtype |-> "uint8",
                      data |-> [i \in 1..Len(secret) |->
                                  astype_uint8(secret[i])]])
            ELSE IF max_val <= 65535
            THEN Ret([shape |-> share_arrays[1].shape, dtype |-> "uint16",
                      data |-> [i \in 1..Len(secret) |->
                                  astype_uint16(secret[i])]])
            ELSE Ret([shape |-> share_arrays[1].shape, dtype |-> "uint32",
                      data |-> [i \in 1..Len(secret) |->
                                  astype_uint32(secret[i])]])

\* (variant: the minimum written  k < 1, so that one share is accepted)
reconstruct_from_one_share(share_arrays, xs, prime) ==
    LET k == Len(xs)
    IN IF k # Len(share_arrays) THEN Raise("ValueError")
       ELSE IF k < 1 THEN Raise("ValueError")
       ELSE reconstruct_interpolate(share_arrays, xs, prime)

reconstruct_from_shares(share_arrays, xs, prime) ==
    LET k == Len(xs)
    IN IF k # Len(share_arrays) THEN Raise("ValueError")
       ELSE IF k < 2 THEN Raise("ValueError")
       ELSE reconstruct_interpolate(share_arrays, xs, prime)

\* ------------------------------------------------ integers of any size
\* Python's int is unbounded and numpy's int64 and uint32 hold values beyond
\* 2^31.  Where a width matters an integer is written as a record
\* [neg, mag]: its sign and its magnitude, the magnitude as a sequence of
\* decimal limbs (digits to the base Base), least significant limb first,
\* with no leading zero limb; zero is [neg |-> FALSE, mag |-> <<>>].
Base == 10000

RECURSIVE mag_norm(_)
mag_norm(m) ==
    IF m = <<>> THEN <<>>
    ELSE IF m[Len(m)] = 0 THEN mag_norm(SubSeq(m, 1, Len(m) - 1))
    ELSE m

RECURSIVE mag_of(_)
mag_of(n) == IF n = 0 THEN <<>> ELSE <<n % Base>> \o mag_of(n \div Base)

limb(m, i) == IF i <= Len(m) THEN m[i] ELSE 0

RECURSIVE mag_less_at(_, _, _)
mag_less_at(a, b, i) ==
    IF i = 0 THEN FALSE
    ELSE IF a[i] # b[i] THEN a[i] < b[i]
    ELSE mag_less_at(a, b, i - 1)

mag_less(a, b) ==
    IF Len(a) # Len(b) THEN Len(a) < Len(b) ELSE mag_less_at(a, b, Len(a))

RECURSIVE mag_add_loop(_, _, _, _)
mag_add_loop(a, b, i, carry) ==
    IF i > Len(a) /\ i > Len(b)
    THEN IF carry = 0 THEN <<>> ELSE <<carry>>
    ELSE <<(limb(a, i) + limb(b, i) + carry) % Base>>
         \o mag_add_loop(a, b, i + 1, (limb(a, i) + limb(b, i) + carry) \div Base)

mag_add(a, b) == mag_add_loop(a, b, 1, 0)

\* a - b for b <= a
RECURSIVE mag_sub_loop(_, _, _, _)
mag_sub_loop(a, b, i, borrow) ==
    IF i > Len(a) THEN <<>>
    ELSE <<(a[i] - limb(b, i) - borrow) % Base>>
         \o mag_sub_loop(a, b, i + 1,
                         IF a[i] - limb(b, i) - borrow < 0 THEN 1 ELSE 0)

mag_sub(a, b) == mag_norm(mag_sub_loop(a, b, 1, 0))

\* a * d for one limb d
RECURSIVE mag_mul_limb_loop(_, _, _, _)
mag_mul_limb_loop(a, d, i, carry) ==
    IF i > Len(a)
    THEN IF carry = 0 THEN <<>> ELSE <<carry>>
    ELSE <<(a[i] * d + carry) % Base>>
         \o mag_mul_limb_loop(a, d, i + 1, (a[i] * d + carry) \div Base)

mag_mul_limb(a, d) == mag_norm(mag_mul_limb_loop(a, d, 1, 0))

\* a * Base
mag_shift(a) == IF a = <<>> THEN <<>> ELSE <<0>> \o a

RECURSIVE mag_mul_loop(_, _, _)
mag_mul_loop(a, b, i) ==
    IF i > Len(b) THEN <<>>
    ELSE mag_add(mag_mul_limb(a, b[i]), mag_shift(mag_mul_loop(a, b, i + 1)))

mag_mul(a, b) == mag_mul_loop(a, b, 1)

\* the largest limb d in lo..hi-1 with b * d <= r, given b * lo <= r < b * hi
RECURSIVE quotient_limb(_, _, _, _)
quotient_limb(r, b, lo, hi) ==
    IF hi - lo <= 1 THEN lo
    ELSE IF mag_less(r, mag_mul_limb(b, (lo + hi) \div 2))
    THEN quotient_limb(r, b, lo, (lo + hi) \div 2)
    ELSE quotient_limb(r, b, (lo + hi) \div 2, hi)

\* long division of a by b > 0 from the limb i down: <<quotient, remainder>>
\* of the limbs i..Len(a) seen so far are q and r
RECURSIVE mag_divmod_loop(_, _, _, _, _)
mag_divmod_loop(a, b, i, q, r) ==
    IF i = 0 THEN <<mag_norm(q), r>>
    ELSE mag_divmod_loop(a, b, i - 1,
            <<quotient_limb(mag_norm(<<a[i]>> \o r), b, 0, Base)>> \o q,
            mag_sub(mag_norm(<<a[i]>> \o r),
                    mag_mul_limb(b, quotient_limb(mag_norm(<<a[i]>> \o r),
                                                  b, 0, Base))))

mag_divmod(a, b) == mag_divmod_loop(a, b, Len(a), <<>>, <<>>)

\* ints
int_make(neg, mag) == [neg |-> neg /\ mag # <<>>, mag |-> mag]
int_of(n) == IF n < 0 THEN int_make(TRUE, mag_of(-n)) ELSE int_make(FALSE, mag_of(n))
int_neg(a) == int_make(~a.neg, a.mag)

int_add(a, b) ==
    IF a.neg = b.neg THEN int_make(a.neg, mag_add(a.mag, b.mag))
    ELSE IF mag_less(a.mag, b.mag) THEN int_make(b.neg, mag_sub(b.mag, a.mag))
    ELSE int_make(a.neg, mag_sub(a.mag, b.mag))

int_sub(a, b) == int_add(a, int_neg(b))
int_mul(a, b) == int_make(a.neg # b.neg, mag_mul(a.mag, b.mag))

int_less(a, b) ==
    IF a.neg # b.neg THEN a.neg
    ELSE IF a.neg THEN mag_less(b.mag, a.mag)
    ELSE mag_less(a.mag, b.mag)

int_leq(a, b) == ~int_less(b, a)

\* a // b, rounding down, for b > 0
int_floordiv(a, b) ==
    IF ~a.neg THEN int_make(FALSE, mag_divmod(a.mag, b.mag)[1])
    ELSE IF mag_divmod(a.mag, b.mag)[2] = <<>>
    THEN int_make(TRUE, mag_divmod(a.mag, b.mag)[1])
    ELSE int_make(TRUE, mag_add(mag_divmod(a.mag, b.mag)[1], <<1>>))

\* a % b for b > 0: the result is in [0, b)
int_mod(a, b) ==
    IF ~a.neg THEN int_make(FALSE, mag_divmod(a.mag, b.mag)[2])
    ELSE IF mag_divmod(a.mag, b.mag)[2] = <<>> THEN int_of(0)
    ELSE int_make(FALSE, mag_sub(b.mag, mag_divmod(a.mag, b.mag)[2]))

Two16 == int_of(65536)
Two32 == int_mul(Two16, Two16)
Two63 == int_mul(int_of(32768), int_mul(Two16, Two32))
Two64 == int_mul(Two32, Two32)

\* the value a numpy int64 holds after an operation whose exact result is v
np_int64(v) ==
    IF int_less(int_mod(v, Two64), Two63) THEN int_mod(v, Two64)
    ELSE int_sub(int_mod(v, Two64), Two64)

\* astype(np.uint32), astype(np.uint16), astype(np.uint8) of an int64
np_uint32(v) == int_mod(v, Two32)
np_uint16(v) == int_mod(v, Two16)
np_uint8(v) == int_mod(v, int_of(256))

\* np.max of an array of such integers
int_max(data) == CHOOSE m \in {data[i] : i \in 1..Len(data)} :
                     \A i \in 1..Len(data) : int_leq(data[i], m)

\* ---------------------- field_math.py and shamir.py at the widths of numpy
\* The operators below are modinv, lagrange_coeffs_at_zero,
\* split_image_into_shares and reconstruct_from_shares once more, computed on
\* integers of any size: Python int operations are exact, an operation on an
\* int64 array wraps to 64 bits, and astype wraps to the width of the new type.

\* modinv: the loop  while low > 1
RECURSIVE modinv_loop_int(_, _, _, _, _)
modinv_loop_int(lm, low, hm, high, p) ==
    IF int_less(int_of(1), low)
    THEN LET r == int_floordiv(high, low)
             nm == int_sub(hm, int_mul(lm, r))
             new == int_sub(high, int_mul(low, r))
         IN modinv_loop_int(nm, new, lm, low, p)
    ELSE int_mod(lm, p)

modinv_int(a, p) ==
    LET a1 == int_mod(a, p)
    IN IF a1 = int_of(0)
       THEN Raise("ZeroDivisionError")
       ELSE Ret(modinv_loop_int(int_of(1), int_mod(a1, p), int_of(0), p, p))

RECURSIVE lagrange_inner_int(_, _, _, _, _, _)
lagrange_inner_int(xs, p, i, j, num, den) ==
    IF j > Len(xs) THEN <<num, den>>
    ELSE IF j = i THEN lagrange_inner_int(xs, p, i, j + 1, num, den)
    ELSE lagrange_inner_int(xs, p, i, j + 1,
                            int_mod(int_mul(num, int_neg(xs[j])), p),
                            int_mod(int_mul(den, int_sub(xs[i], xs[j])), p))

RECURSIVE lagrange_outer_int(_, _, _, _)
lagrange_outer_int(xs, p, i, coeffs) ==
    IF i > Len(xs) THEN Ret(coeffs)
    ELSE LET nd == lagrange_inner_int(xs, p, i, 1, int_of(1), int_of(1))
             inv_den == modinv_int(nd[2], p)
         IN IF inv_den.exc # "none"
            THEN inv_den
            ELSE lagrange_outer_int(xs, p, i + 1,
                     Append(coeffs, int_mod(int_mul(nd[1], inv_den.val), p)))

\* xs is a sequence of model integers, p an integer of any size
lagrange_coeffs_at_zero_int(xs, p) ==
    lagrange_outer_int([i \in 1..Len(xs) |-> int_mod(int_of(xs[i]), p)],
                       p, 1, <<>>)

\* split: the loop  for j in range(k)  at one array position; y and coeffs[j]
\* are int64, x_pow is a Python int
RECURSIVE eval_loop_int64(_, _, _, _, _, _)
eval_loop_int64(c, x, prime, j, y, x_pow) ==
    IF j >= Len(c) THEN y
    ELSE eval_loop_int64(c, x, prime, j + 1,
             int_mod(np_int64(int_add(y, np_int64(int_mul(c[j + 1], x_pow)))),
                     prime),
             int_mod(int_mul(x_pow, int_of(x)), prime))

split_checks_int64(img_array, n, k, prime) ==
    IF ~(2 <= k /\ k <= n) THEN "ValueError"
    ELSE IF int_leq(prime, int_max(img_array.data)) THEN "ValueError"
    ELSE IF ~(\/ Len(img_array.shape) = 2
              \/ (Len(img_array.shape) = 3 /\ img_array.shape[3] = 3))
    THEN "ValueError"
    ELSE "none"

split_image_into_shares_int64(img_array, n, k, prime, rnd) ==
    IF split_checks_int64(img_array, n, k, prime) # "none"
    THEN Raise(split_checks_int64(img_array, n, k, prime))
    ELSE Ret([x \in 1..n |->
                [shape |-> img_array.shape,
                 dtype |-> "uint32",
                 data |-> [i \in 1..Len(img_array.data) |->
                            np_uint32(
                              eval_loop_int64(
                                coeffs_at(img_array.data, rnd, k, i),
                                x, prime, 0, int_of(0), int_of(1)))]]])

\* reconstruct: the loop over zip(lagrange_coeffs, share_arrays) at position i
RECURSIVE accum_loop_int64(_, _, _, _, _, _)
accum_loop_int64(lagrange_coeffs, share_arrays, prime, i, t, accum) ==
    IF t > Len(lagrange_coeffs) \/ t > Len(share_arrays) THEN accum
    ELSE LET y_int == int_mod(share_arrays[t].data[i], prime)
             term == int_mod(np_int64(int_mul(y_int, lagrange_coeffs[t])),
                             prime)
         IN accum_loop_int64(lagrange_coeffs, share_arrays, prime, i, t + 1,
                IF t = 1 THEN term
                ELSE int_mod(np_int64(int_add(accum, term)), prime))

\* reconstruct: the array  secret  before the output type is chosen
secret_int64(lagrange_coeffs, share_arrays, prime) ==
    [i \in 1..Len(share_arrays[1].data) |->
       int_mod(accum_loop_int64(lagrange_coeffs, share_arrays, prime, i, 1,
                                int_of(0)),
               prime)]

reconstruct_from_shares_int64(share_arrays, xs, prime) ==
    LET k == Len(xs)
    IN IF k # Len(share_arrays) THEN Raise("ValueError")
       ELSE IF k < 2 THEN Raise("ValueError")
       ELSE
         LET lagrange_coeffs == lagrange_coeffs_at_zero_int(xs, prime)
         IN IF lagrange_coeffs.exc # "none" THEN lagrange_coeffs
            ELSE
              LET secret == secret_int64(lagrange_coeffs.val, share_arrays,
                                         prime)
                  max_val == int_max(secret)
              IN IF int_leq(max_val, int_of(255))
                 THEN Ret([shape |-> share_arrays[1].shape, dtype |-> "uint8",
                           data |-> [i \in 1..Len(secret) |->
                                       np_uint8(secret[i])]])
                 ELSE IF int_leq(max_val, int_of(65535))
                 THEN Ret([shape |-> share_arrays[1].shape, dtype |-> "uint16",
                           data |-> [i \in 1..Len(secret) |->
                                       np_uint16(secret[i])]])
                 ELSE Ret([shape |-> share_arrays[1].shape, dtype |-> "uint32",
                           data |-> [i \in 1..Len(secret) |->
                                       np_uint32(secret[i])]])

\* --------------------------------------------------- core/share_io.py
\* a raise whose message names a share index and what differs
RaiseAt(e, i, what) == [exc |-> e, index |-> i, what |-> what]

\* (variant: the shape comparison left out)
RECURSIVE validate_loop_no_shape(_, _, _)
validate_loop_no_shape(share_data_list, first, t) ==
    IF t > Len(share_data_list) THEN Ret(TRUE)
    ELSE IF share_data_list[t].prime # first.prime
    THEN RaiseAt("ValueError", t - 1, "prime")
    ELSE IF share_data_list[t].mode # first.mode
    THEN RaiseAt("ValueError", t - 1, "mode")
    ELSE validate_loop_no_shape(share_data_list, first, t + 1)

\* validate_shares_compatible: the loop  for i, share_data in
\* enumerate(share_data_list[1:], 1); position t of the sequence is index t - 1
RECURSIVE validate_loop(_, _, _)
validate_loop(share_data_list, first, t) ==
    IF t > Len(share_data_list) THEN Ret(TRUE)
    ELSE IF share_data_list[t].prime # first.prime
    THEN RaiseAt("ValueError", t - 1, "prime")
    ELSE IF share_data_list[t].mode # first.mode
    THEN RaiseAt("ValueError", t - 1, "mode")
    ELSE IF share_data_list[t].original_shape # first.original_shape
    THEN RaiseAt("ValueError", t - 1, "shape")
    ELSE validate_loop(share_data_list, first, t + 1)

\* (variant: the loop started one share too late)
validate_skipping_index_1(share_data_list) ==
    IF share_data_list = <<>>
    THEN Raise("ValueError")
    ELSE validate_loop(share_data_list, share_data_list[1], 3)

validate_shares_compatible(share_data_list) ==
    IF share_data_list = <<>>
    THEN Raise("ValueError")
    ELSE validate_loop(share_data_list, share_data_list[1], 2)

\* ------------------------------------- core/image_utils.py and main.py
np_min(data) == CHOOSE m \in {data[i] : i \in 1..Len(data)} :
                    \A i \in 1..Len(data) : m <= data[i]

detect_image_properties(img_array) ==
    LET max_val == np_max(img_array.data)
        min_val == np_min(img_array.data)
    IN [mode |-> IF Len(img_array.shape) = 2 THEN "grayscale" ELSE "rgb",
        max_value |-> max_val,
        min_value |-> min_val,
        recommended_prime |-> next_prime(max_val),
        shape |-> img_array.shape,
        bit_depth |-> IF max_val <= 15 THEN 4
                      ELSE IF max_val <= 255 THEN 8
                      ELSE IF max_val <= 65535 THEN 16
                      ELSE 32]

\* an optional integer (args.prime): None, or <<v>> for the integer v
None == <<>>

\* cmd_split: the prime it goes on with, or None when it prints the warning
\* and returns
cmd_split_prime(props, args_prime) ==
    IF args_prime # None
    THEN IF args_prime[1] <= props.max_value THEN None ELSE args_prime
    ELSE <<props.recommended_prime>>

\* cmd_split: the files written by the loop over shares.items()
save_shares(shares, prime, props) ==
    [x \in 1..Len(shares) |->
       [share |-> shares[x], x |-> x, prime |-> prime, mode |-> props.mode,
        original_shape |-> props.shape]]

\* cmd_split on the loaded image img_array with --n, --k and --prime; rnd is
\* what the default rng of split_image_into_shares draws
cmd_split(img_array, n, k, args_prime, rnd) ==
    LET props == detect_image_properties(img_array)
        prime == cmd_split_prime(props, args_prime)
    IN IF prime = None
       THEN [props |-> props, prime |-> None, shares |-> NotYet,
             saved |-> <<>>]
       ELSE LET shares == split_image_into_shares(img_array, n, k, prime[1],
                                                   rnd)
            IN [props |-> props, prime |-> prime, shares |-> shares,
                saved |-> IF shares.exc = "none"
                          THEN save_shares(shares.val, prime[1], props)
                          ELSE <<>>]

\* ------------------------------------------------------------------ state
VARIABLES
    call,     \* the last call of a field_math function: [fn, args, ret]
    split,    \* the last call of split_image_into_shares and its outcome
    recon,    \* the last call of reconstruct_from_shares on shares of split
    cmd       \* a run of cmd_reconstruct: its position and what it has done

vars == <<call, split, recon, cmd>>

NoCall == [fn |-> "none"]
CmdStart == [pc |-> "start", share_data_list |-> <<>>, validated |-> NotYet,
             reconstructed |-> NotYet, saved |-> NotYet]

Init == call = NoCall /\ split = NoCall /\ recon = NoCall /\ cmd = CmdStart

FieldInit == Init

Call_is_prime ==
    \E n \in (0 - MaxNeg)..MaxInt :
        /\ call' = [fn |-> "is_prime", args |-> <<n>>, ret |-> Ret(is_prime(n))]
        /\ UNCHANGED <<split, recon, cmd>>

Call_next_prime ==
    \E n \in (0 - MaxNeg)..MaxInt :
        /\ call' = [fn |-> "next_prime", args |-> <<n>>,
                     ret |-> Ret(next_prime(n))]
        /\ UNCHANGED <<split, recon, cmd>>

Call_modinv ==
    \E a \in (0 - MaxA)..MaxA, p \in 2..MaxMod :
        /\ call' = [fn |-> "modinv", args |-> <<a, p>>, ret |-> modinv(a, p)]
        /\ UNCHANGED <<split, recon, cmd>>

FieldNext == Call_is_prime \/ Call_next_prime \/ Call_modinv

FieldSpec == FieldInit /\ [][FieldNext]_vars

\* the arrays a caller can pass: 1-D, H x W and H x W x C shapes of at most
\* MaxLen elements
Shapes ==
    {<<l>> : l \in 1..MaxLen} \cup {<<1, w>> : w \in 1..MaxLen}
        \cup {<<1, 1, c>> : c \in 1..MaxLen}

Images ==
    UNION {[shape : {sh}, data : [1..shape_size(sh) -> (0 - MaxNegVal)..MaxVal]]
             : sh \in Shapes}

\* the draws split makes: none when it raises before reaching the rng
DrawsOf(img_array, n, k, prime) ==
    IF split_checks(img_array, n, k, prime) = "none"
    THEN Draws(Len(img_array.data), k, prime)
    ELSE {<<>>}

\* split_image_into_shares(img_array, n, k, prime, rng): one split per run
Split ==
    /\ split = NoCall
    /\ \E img_array \in Images, n \in 1..MaxN, k \in 1..(MaxN + 1),
       prime \in 2..MaxPrime :
      \E rnd \in DrawsOf(img_array, n, k, prime) :
        /\ split' = [fn |-> "split_image_into_shares",
                     img_array |-> img_array, n |-> n, k |-> k,
                     prime |-> prime, rnd |-> rnd,
                     ret |-> split_image_into_shares(img_array, n, k, prime, rnd)]
        /\ recon' = NoCall
        /\ UNCHANGED <<call, cmd>>

\* the sequences of m distinct share numbers out of 1..n
Picks(n, m) ==
    {xs \in [1..m -> 1..n] : \A i, j \in 1..m : i # j => xs[i] # xs[j]}

\* reconstruct_from_shares on m >= 2 of the shares of the last split, in any
\* order, each with its own x
Reconstruct ==
    /\ split.fn = "split_image_into_shares"
    /\ recon = NoCall
    /\ split.ret.exc = "none"
    /\ \E m \in 2..split.n :
         \E xs \in Picks(split.n, m) :
           recon' = [fn |-> "reconstruct_from_shares",
                     share_arrays |-> [t \in 1..m |-> split.ret.val[xs[t]]],
                     xs |-> xs, prime |-> split.prime,
                     ret |-> reconstruct_from_shares(
                                 [t \in 1..m |-> split.ret.val[xs[t]]],
                                 xs, split.prime)]
    /\ UNCHANGED <<call, split, cmd>>

Next == Split \/ Reconstruct

Spec == Init /\ [][Next]_vars

\* the sequences of at most MaxShares x-coordinates a caller can pass
XsLists == UNION {[1..m -> 0..MaxX] : m \in 0..MaxShares}

\* lagrange_coeffs_at_zero(xs, p) called with any list: one call per run
Call_lagrange_coeffs_at_zero ==
    /\ call = NoCall
    /\ recon = NoCall
    /\ \E xs \in XsLists, p \in 2..MaxPrime :
         call' = [fn |-> "lagrange_coeffs_at_zero", args |-> <<xs, p>>,
                  ret |-> lagrange_coeffs_at_zero(xs, p)]
    /\ UNCHANGED <<split, recon, cmd>>

\* lagrange_coeffs_at_zero on its own
LagrangeNext == Call_lagrange_coeffs_at_zero

LagrangeSpec == Init /\ [][LagrangeNext]_vars

\* the share arrays a caller can pass: 1 x 1 arrays as share_io loads them
ShareArrays ==
    [shape : {<<1, 1>>}, dtype : {"uint32"}, data : [1..1 -> 0..MaxShareVal]]

ShareLists == UNION {[1..m -> ShareArrays] : m \in 0..MaxShares}

\* reconstruct_from_shares(share_arrays, xs, prime) called with any lists
CallReconstruct ==
    /\ call = NoCall
    /\ recon = NoCall
    /\ \E share_arrays \in ShareLists, xs \in XsLists, prime \in 2..MaxPrime :
         recon' = [fn |-> "reconstruct_from_shares",
                   share_arrays |-> share_arrays, xs |-> xs, prime |-> prime,
                   ret |-> reconstruct_from_shares(share_arrays, xs, prime)]
    /\ UNCHANGED <<call, split, cmd>>

ReconNext == Call_lagrange_coeffs_at_zero \/ CallReconstruct

ReconSpec == Init /\ [][ReconNext]_vars

\* the primes of the calls made at full width: 257, 65537, the largest prime
\* below 2^32 and the smallest prime above it
WidePrimes ==
    {int_of(257), int_of(65537), int_sub(Two32, int_of(5)),
     int_add(Two32, int_of(15))}

\* secret values, and the values of [0, prime) taken for a drawn coefficient:
\* both ends of the range
WideSecrets == {int_of(0), int_of(1), int_of(255)}
WideDraws(prime) ==
    {int_of(0), int_of(1), int_sub(prime, int_of(2)), int_sub(prime, int_of(1))}

\* split_image_into_shares on a 1 x 1 image, n in 2..MaxWideN
WideSplit ==
    /\ split = NoCall
    /\ recon = NoCall
    /\ \E s \in WideSecrets, n \in 2..MaxWideN, prime \in WidePrimes :
         \E k \in 2..n :
           \E rnd \in [1..(k - 1) -> [1..1 -> WideDraws(prime)]] :
             LET img_array == [shape |-> <<1, 1>>, data |-> <<s>>]
             IN split' = [fn |-> "split_image_into_shares",
                          img_array |-> img_array, n |-> n, k |-> k,
                          prime |-> prime, rnd |-> rnd,
                          ret |-> split_image_into_shares_int64(
                                      img_array, n, k, prime, rnd)]
    /\ UNCHANGED <<call, recon, cmd>>

\* the values of a uint32 share element: both ends of the range
WideShareVals == {int_of(0), int_of(1), int_sub(Two32, int_of(1))}

\* reconstruct_from_shares on two 1 x 1 shares with x in 1..MaxWideX
WideReconstruct ==
    /\ split = NoCall
    /\ recon = NoCall
    /\ \E xs \in [1..2 -> 1..MaxWideX], prime \in WidePrimes :
         \E ys \in [1..2 -> WideShareVals] :
           LET share_arrays == [t \in 1..2 |->
                                  [shape |-> <<1, 1>>, dtype |-> "uint32",
                                   data |-> <<ys[t]>>]]
           IN recon' = [fn |-> "reconstruct_from_shares",
                        share_arrays |-> share_arrays, xs |-> xs,
                        prime |-> prime,
                        ret |-> reconstruct_from_shares_int64(
                                    share_arrays, xs, prime)]
    /\ UNCHANGED <<call, split, cmd>>

WideNext == WideSplit \/ WideReconstruct

WideSpec == Init /\ [][WideNext]_vars

\* ------------------------------------------------ field_math properties
\* primality in the mathematical sense: no divisor strictly between 1 and n
IsPrimeNumber(n) == n >= 2 /\ \A d \in 2..(n - 1) : n % d # 0

\* C5: for a prime p and a in [1, p), modinv(a, p) returns x in [1, p) with
\* (a * x) % p = 1, and modinv(x, p) returns a again.
C5_ModinvIsInverse ==
    (/\ call.fn = "modinv"
     /\ IsPrimeNumber(call.args[2])
     /\ call.args[1] \in 1..(call.args[2] - 1))
    => LET a == call.args[1]
           p == call.args[2]
       IN /\ call.ret.exc = "none"
          /\ call.ret.val \in 1..(p - 1)
          /\ (a * call.ret.val) % p = 1
          /\ modinv(call.ret.val, p) = Ret(a)

\* a call modinv(a, p), p prime, 1 < a < p - 1, whose loop ran and whose
\* result is another element than a
C5_Witness ==
    /\ call.fn = "modinv"
    /\ IsPrimeNumber(call.args[2])
    /\ call.args[1] \in 2..(call.args[2] - 2)
    /\ call.ret.exc = "none"
    /\ call.ret.val # call.args[1]
    /\ call.ret.val > 1

\* C6: for p >= 2 and every integer a that is a multiple of p (negative, zero
\* or >= p), modinv(a, p) raises and returns no value.
C6_ModinvOfZeroRaises ==
    (/\ call.fn = "modinv"
     /\ call.args[2] >= 2
     /\ \E q \in (0 - MaxA)..MaxA : call.args[1] = q * call.args[2])
    => call.ret = Raise("ZeroDivisionError")

\* modinv raised on a negative multiple of p and on a multiple above p
C6_Witness ==
    /\ call.fn = "modinv"
    /\ call.args[1] # 0
    /\ \E q \in (0 - MaxA)..MaxA : call.args[1] = q * call.args[2]
    /\ call.ret.exc = "ZeroDivisionError"

\* C7: for n >= 2, next_prime(n) returns q > n, q prime (mathematically and
\* by is_prime), with no prime strictly between n and q.
C7_NextPrimeIsNext ==
    (call.fn = "next_prime" /\ call.args[1] >= 2)
    => LET n == call.args[1]
           q == call.ret.val
       IN /\ call.ret.exc = "none"
          /\ q > n
          /\ IsPrimeNumber(q)
          /\ is_prime(q)
          /\ \A m \in (n + 1)..(q - 1) : ~IsPrimeNumber(m)

\* next_prime called on a prime n >= 2 and skipping over composites
C7_Witness ==
    /\ call.fn = "next_prime"
    /\ call.args[1] >= 2
    /\ IsPrimeNumber(call.args[1])
    /\ call.ret.val > call.args[1] + 2

\* C8: is_prime(n) is true exactly when n >= 2 and n has no divisor d with
\* 1 < d < n; it is false for every n < 2.
C8_IsPrimeExact ==
    (call.fn = "is_prime")
    => /\ call.ret.exc = "none"
       /\ call.ret.val = IsPrimeNumber(call.args[1])
       /\ (call.args[1] < 2 => call.ret.val = FALSE)

\* is_prime called on the odd square of a prime, answering false
C8_Witness ==
    /\ call.fn = "is_prime"
    /\ \E d \in 3..MaxInt : IsPrimeNumber(d) /\ d * d = call.args[1]
    /\ call.ret.val = FALSE

\* the modes and original shapes a share file can carry
Modes == {"grayscale", "rgb"}
FileShapes == {<<1, 1>>, <<1, 1, 3>>}

\* share data as load_share returns it, for a direct call of
\* validate_shares_compatible, which reads prime, mode and original_shape
MetaShares ==
    [share : {[shape |-> <<1, 1>>, dtype |-> "uint32", data |-> <<0>>]},
     x : {1}, prime : 2..MaxFilePrime, mode : Modes,
     original_shape : FileShapes]

Call_validate_shares_compatible ==
    /\ call = NoCall
    /\ \E m \in 0..MaxMetaShares :
         \E share_data_list \in [1..m -> MetaShares] :
           call' = [fn |-> "validate_shares_compatible",
                    args |-> <<share_data_list>>,
                    ret |-> validate_shares_compatible(share_data_list)]
    /\ UNCHANGED <<split, recon, cmd>>

ValidateNext == Call_validate_shares_compatible

ValidateSpec == Init /\ [][ValidateNext]_vars

\* share data as load_share returns it from the files given to cmd_reconstruct
FileShares ==
    [share : [shape : {<<1, 1>>}, dtype : {"uint32"},
              data : [1..1 -> 0..MaxFileVal]],
     x : 1..MaxFileX, prime : 2..MaxFilePrime, mode : Modes,
     original_shape : FileShapes]

\* cmd_reconstruct: the loop loading every share file
CmdLoad ==
    /\ cmd.pc = "start"
    /\ \E m \in 0..MaxFiles :
         \E share_data_list \in [1..m -> FileShares] :
           cmd' = [cmd EXCEPT !.pc = "validate",
                              !.share_data_list = share_data_list]
    /\ UNCHANGED <<call, split, recon>>

\* cmd_reconstruct: validate_shares_compatible in its try block; a ValueError
\* is printed and the command returns
CmdValidate ==
    /\ cmd.pc = "validate"
    /\ LET v == validate_shares_compatible(cmd.share_data_list)
       IN cmd' = [cmd EXCEPT !.validated = v,
                             !.pc = IF v.exc = "ValueError"
                                    THEN "done" ELSE "reconstruct"]
    /\ UNCHANGED <<call, split, recon>>

\* cmd_reconstruct: the call of reconstruct_from_shares; an exception it
\* raises leaves the command
CmdReconstruct ==
    /\ cmd.pc = "reconstruct"
    /\ LET l == cmd.share_data_list
           share_arrays == [t \in 1..Len(l) |-> l[t].share]
           xs == [t \in 1..Len(l) |-> l[t].x]
           prime == l[1].prime
           r == reconstruct_from_shares(share_arrays, xs, prime)
       IN cmd' = [cmd EXCEPT !.reconstructed = r,
                             !.pc = IF r.exc = "none" THEN "save" ELSE "raised"]
    /\ UNCHANGED <<call, split, recon>>

\* cmd_reconstruct: save_image(reconstructed, args.output_image, mode=mode)
CmdSave ==
    /\ cmd.pc = "save"
    /\ cmd' = [cmd EXCEPT !.saved = [image |-> cmd.reconstructed.val,
                                     mode |-> cmd.share_data_list[1].mode],
                          !.pc = "done"]
    /\ UNCHANGED <<call, split, recon>>

CliNext == CmdLoad \/ CmdValidate \/ CmdReconstruct \/ CmdSave

CliSpec == Init /\ [][CliNext]_vars

\* the arrays load_image returns: H x W or H x W x 3, pixels in 0..MaxPixel
LoadedImages ==
    UNION {[shape : {sh}, data : [1..shape_size(sh) -> 0..MaxPixel]]
             : sh \in {<<1, 1>>, <<1, 2>>, <<1, 1, 3>>}}

\* the draws of a run of cmd_split: none when split is not reached or raises
\* before the rng
CmdDraws(img_array, n, k, args_prime) ==
    LET prime == cmd_split_prime(detect_image_properties(img_array), args_prime)
    IN IF prime = None THEN {<<>>} ELSE DrawsOf(img_array, n, k, prime[1])

\* one run of cmd_split
CmdSplit ==
    /\ call = NoCall
    /\ \E img_array \in LoadedImages, n \in 1..MaxCmdN, k \in 1..MaxCmdN,
          args_prime \in {None} \cup {<<p>> : p \in 2..MaxCmdPrime} :
         \E rnd \in CmdDraws(img_array, n, k, args_prime) :
           call' = [fn |-> "cmd_split", img_array |-> img_array, n |-> n,
                    k |-> k, args_prime |-> args_prime, rnd |-> rnd,
                    ret |-> cmd_split(img_array, n, k, args_prime, rnd)]
    /\ UNCHANGED <<split, recon, cmd>>

SplitCliNext == CmdSplit

SplitCliSpec == Init /\ [][SplitCliNext]_vars

\* ---------------------------------------------------- shamir properties
SplitDone == split.fn = "split_image_into_shares"
SplitOk == SplitDone /\ split.ret.exc = "none"
ReconDone == recon.fn = "reconstruct_from_shares"

\* every element of the secret array lies in [0, prime)
SecretInField ==
    \A i \in 1..Len(split.img_array.data) :
        split.img_array.data[i] \in 0..(split.prime - 1)

\* the reconstruction returned an array equal to the secret, element for element
Recovered ==
    /\ recon.ret.exc = "none"
    /\ recon.ret.val.shape = split.img_array.shape
    /\ recon.ret.val.data = split.img_array.data

\* C1: round trip. For 2 <= k <= n, prime a prime above every secret value,
\* secret values in [0, prime) and any coefficients, reconstruct_from_shares on
\* any k of the n shares, in any order, returns the secret array.
C1_RoundTrip ==
    (/\ ReconDone
     /\ IsPrimeNumber(split.prime)
     /\ SecretInField
     /\ Len(recon.xs) = split.k)
    => Recovered

\* the number of coefficient vectors (c1..c_{k-1}) in [0, prime)^(k-1) for
\* which the shares at the points X of a secret value s are the values obs
Consistent(X, obs, s, k, prime) ==
    Cardinality({c \in [1..(k - 1) -> 0..(prime - 1)] :
        \A x \in X :
            eval_loop([j \in 1..k |-> IF j = 1 THEN s ELSE c[j - 1]],
                      x, prime, 0, 0, 1) = obs[x]})

\* C2: secrecy below the threshold. For every (n, k, prime) split accepts,
\* every k - 1 of the share points and every tuple of field values seen at
\* them, every candidate secret in [0, prime) is consistent with the same
\* number of coefficient vectors.
C2_Secrecy ==
    (SplitOk /\ SecretInField)
    => \A X \in {Y \in SUBSET (1..split.n) : Cardinality(Y) = split.k - 1} :
         \A obs \in [X -> 0..(split.prime - 1)] :
           \A s1, s2 \in 0..(split.prime - 1) :
             Consistent(X, obs, s1, split.k, split.prime)
                 = Consistent(X, obs, s2, split.k, split.prime)

\* C3: over-determined reconstruction. With m shares of one split, k < m <= n,
\* any order, reconstruct_from_shares returns the secret array, as it does
\* from k of them.
C3_OverDetermined ==
    (/\ ReconDone
     /\ IsPrimeNumber(split.prime)
     /\ SecretInField
     /\ Len(recon.xs) > split.k)
    => Recovered

\* C4: threshold insufficiency. With exactly k - 1 >= 2 shares of one split,
\* reconstruct_from_shares raises nothing, and at each position returns the
\* secret exactly when the leading coefficient drawn there is 0 mod prime.
C4_BelowThreshold ==
    (/\ ReconDone
     /\ IsPrimeNumber(split.prime)
     /\ SecretInField
     /\ Len(recon.xs) = split.k - 1
     /\ split.k - 1 >= 2)
    => /\ recon.ret.exc = "none"
       /\ \A i \in 1..Len(split.img_array.data) :
            (recon.ret.val.data[i] = split.img_array.data[i])
                <=> (split.rnd[split.k - 1][i] % split.prime = 0)

\* C9: split_image_into_shares raises ValueError, returning no shares,
\* whenever 2 <= k <= n does not hold, for every secret array and prime.
C9_ThresholdChecked ==
    (SplitDone /\ ~(2 <= split.k /\ split.k <= split.n))
    => split.ret = Raise("ValueError")

\* a split with k < 2 on an array and prime that pass every other check
C9_Witness ==
    /\ SplitDone
    /\ split.k < 2
    /\ SecretInField
    /\ Len(split.img_array.shape) = 2
    /\ split.ret = Raise("ValueError")

\* C10: split_image_into_shares raises ValueError, returning no shares,
\* whenever some element of the secret array is >= prime or negative.
C10_RangeChecked ==
    (SplitDone /\ ~SecretInField)
    => split.ret = Raise("ValueError")

\* C11: the split path rejects every modulus that is not a prime number: no
\* shares are produced with a composite modulus (here for a call that passes
\* every other check).
C11_CompositeRejected ==
    (SplitDone /\ SecretInField /\ 2 <= split.k /\ split.k <= split.n
       /\ Len(split.img_array.shape) = 2 /\ ~IsPrimeNumber(split.prime))
    => split.ret.exc # "none"

\* C20: for every (n, k, prime) split accepts, the evaluation points 1..n
\* are pairwise distinct and nonzero modulo prime, so that no share is the
\* polynomial evaluated at 0 mod prime.
C20_PointsDistinctNonzero ==
    (SplitOk /\ SecretInField)
    => /\ \A x \in 1..split.n : x % split.prime # 0
       /\ \A x, y \in 1..split.n :
            x # y => x % split.prime # y % split.prime
       /\ \A x \in 1..split.n :
            \E rnd \in Draws(Len(split.img_array.data), split.k, split.prime) :
               split_image_into_shares(split.img_array, split.n, split.k,
                                       split.prime, rnd).val[x].data
                   # split.img_array.data

\* ------------------------------------------- interpolation properties
LagrangeDone == call.fn = "lagrange_coeffs_at_zero"
CallReconDone == recon.fn = "reconstruct_from_shares"

\* two of the x-coordinates are equal modulo p
SomeEqualMod(xs, p) ==
    \E i, j \in 1..Len(xs) : i # j /\ xs[i] % p = xs[j] % p

\* one of the x-coordinates is zero modulo p
SomeZeroMod(xs, p) == \E i \in 1..Len(xs) : xs[i] % p = 0

\* C12: reconstruct_from_shares raises ValueError, before any Lagrange
\* coefficient is computed, whenever len(xs) # len(share_arrays) or
\* len(xs) < 2.
C12_LengthsChecked ==
    (/\ CallReconDone
     /\ (Len(recon.xs) # Len(recon.share_arrays) \/ Len(recon.xs) < 2))
    => recon.ret = Raise("ValueError")

\* a call with a single share, and a call with lists of different lengths
\* whose x-coordinates would make the Lagrange computation raise
C12_Witness ==
    /\ CallReconDone
    /\ Len(recon.xs) # Len(recon.share_arrays)
    /\ Len(recon.xs) >= 2
    /\ lagrange_coeffs_at_zero(recon.xs, recon.prime).exc = "ZeroDivisionError"
    /\ recon.ret = Raise("ValueError")

\* C13: whenever two of the x-coordinates are equal modulo prime (equal, or
\* differing by a multiple of prime), lagrange_coeffs_at_zero raises, and so
\* does reconstruct_from_shares.
C13_DuplicateXsRaise ==
    /\ (LagrangeDone /\ SomeEqualMod(call.args[1], call.args[2]))
           => call.ret = Raise("ZeroDivisionError")
    /\ (CallReconDone /\ SomeEqualMod(recon.xs, recon.prime))
           => recon.ret.exc # "none"

\* reconstruct_from_shares given as many shares as x-coordinates, two of which
\* are different integers equal modulo prime, raising from modinv
C13_Witness ==
    /\ CallReconDone
    /\ Len(recon.xs) = Len(recon.share_arrays)
    /\ \E i, j \in 1..Len(recon.xs) :
           recon.xs[i] # recon.xs[j]
               /\ recon.xs[i] % recon.prime = recon.xs[j] % recon.prime
    /\ ~(\E i, j \in 1..Len(recon.xs) : i # j /\ recon.xs[i] = recon.xs[j])
    /\ recon.ret = Raise("ZeroDivisionError")

\* C14: whenever one of the x-coordinates is zero modulo prime and they are
\* pairwise distinct modulo prime, lagrange_coeffs_at_zero raises, and so does
\* reconstruct_from_shares.
C14_ZeroXRaises ==
    /\ (/\ LagrangeDone
        /\ Len(call.args[1]) >= 2
        /\ SomeZeroMod(call.args[1], call.args[2])
        /\ ~SomeEqualMod(call.args[1], call.args[2]))
           => call.ret.exc # "none"
    /\ (/\ CallReconDone
        /\ Len(recon.xs) = Len(recon.share_arrays)
        /\ Len(recon.xs) >= 2
        /\ SomeZeroMod(recon.xs, recon.prime)
        /\ ~SomeEqualMod(recon.xs, recon.prime))
           => recon.ret.exc # "none"

\* C17: reconstruct_from_shares, given two or more shares with x-coordinates
\* that are distinct and nonzero modulo prime, raises, instead of computing
\* with the value reduced modulo prime, when a share element or an
\* x-coordinate is >= prime.
C17_NoSilentReduction ==
    (/\ CallReconDone
     /\ Len(recon.xs) = Len(recon.share_arrays)
     /\ Len(recon.xs) >= 2
     /\ ~SomeEqualMod(recon.xs, recon.prime)
     /\ ~SomeZeroMod(recon.xs, recon.prime)
     /\ \/ \E t \in 1..Len(recon.share_arrays) :
              \E i \in 1..Len(recon.share_arrays[t].data) :
                 recon.share_arrays[t].data[i] >= recon.prime
        \/ \E t \in 1..Len(recon.xs) : recon.xs[t] >= recon.prime)
    => recon.ret.exc # "none"

\* ------------------------------------------------ share file properties
\* what validate_shares_compatible compares
Meta(sd) == <<sd.prime, sd.mode, sd.original_shape>>

\* the positions (from the second on) whose metadata differs from the first's
Differing(l) == {t \in 2..Len(l) : Meta(l[t]) # Meta(l[1])}

Min(S) == CHOOSE m \in S : \A n \in S : m <= n

\* C15: validate_shares_compatible succeeds exactly when every share's
\* (prime, mode, original_shape) equals that of share 0; otherwise it raises
\* a ValueError naming the smallest index i >= 1 that differs, and it raises
\* on an empty list.
C15_ValidateFirstMismatch ==
    (call.fn = "validate_shares_compatible")
    => LET l == call.args[1]
       IN /\ (call.ret = Ret(TRUE)) <=> (l # <<>> /\ Differing(l) = {})
          /\ (l = <<>>) => call.ret.exc = "ValueError"
          /\ (Differing(l) # {})
                => /\ call.ret.exc = "ValueError"
                   /\ call.ret.index = Min(Differing(l)) - 1

\* a list in which indices 1 and 2 both differ from share 0, in different
\* fields, and the error names index 1
C15_Witness ==
    /\ call.fn = "validate_shares_compatible"
    /\ Len(call.args[1]) = 3
    /\ Differing(call.args[1]) = {2, 3}
    /\ call.args[1][2].prime = call.args[1][1].prime
    /\ call.args[1][3].prime # call.args[1][1].prime
    /\ call.ret.exc = "ValueError"
    /\ call.ret.index = 1

\* C16: in cmd_reconstruct validation precedes reconstruction: when some
\* loaded share differs from the first in prime, mode or shape,
\* reconstruct_from_shares is never called and no output image is written.
C16_ValidationBeforeReconstruction ==
    (cmd.pc # "start" /\ Differing(cmd.share_data_list) # {})
    => cmd.reconstructed = NotYet /\ cmd.saved = NotYet

\* a run that loaded shares differing in shape only, was stopped by the
\* validation and returned
C16_Witness ==
    /\ cmd.pc = "done"
    /\ Differing(cmd.share_data_list) # {}
    /\ \A t \in 1..Len(cmd.share_data_list) :
          /\ cmd.share_data_list[t].prime = cmd.share_data_list[1].prime
          /\ cmd.share_data_list[t].mode = cmd.share_data_list[1].mode
    /\ cmd.validated.exc = "ValueError"
    /\ cmd.reconstructed = NotYet
    /\ cmd.saved = NotYet

\* ------------------------------------------------------ width properties
\* the exact value of the polynomial with coefficients c[j..] at x
RECURSIVE poly_at(_, _, _)
poly_at(c, x, j) ==
    IF j > Len(c) THEN int_of(0)
    ELSE int_add(c[j], int_mul(int_of(x), poly_at(c, x, j + 1)))

\* C18: for every prime split_image_into_shares accepts, every stored share
\* element is the exact value of its polynomial at x reduced mod prime:
\* neither the int64 products nor the cast to uint32 changes a value of
\* [0, prime - 1].
C18_SharesExact ==
    (split.fn = "split_image_into_shares" /\ split.ret.exc = "none")
    => \A x \in 1..split.n :
         \A i \in 1..Len(split.img_array.data) :
           split.ret.val[x].data[i]
             = int_mod(poly_at(coeffs_at(split.img_array.data, split.rnd,
                                         split.k, i), x, 1),
                       split.prime)

\* C19: reconstruct_from_shares returns every element in [0, prime), as uint8
\* when the largest value m of the result is at most 255, as uint16 when
\* 256 <= m <= 65535 and as uint32 otherwise, and the cast leaves every
\* element as it was.
C19_OutputWidth ==
    (recon.fn = "reconstruct_from_shares" /\ recon.ret.exc = "none")
    => LET secret == secret_int64(
                         lagrange_coeffs_at_zero_int(recon.xs, recon.prime).val,
                         recon.share_arrays, recon.prime)
           m == int_max(secret)
       IN /\ \A i \in 1..Len(recon.ret.val.data) :
               /\ int_leq(int_of(0), recon.ret.val.data[i])
               /\ int_less(recon.ret.val.data[i], recon.prime)
          /\ recon.ret.val.dtype
               = IF int_leq(m, int_of(255)) THEN "uint8"
                 ELSE IF int_leq(m, int_of(65535)) THEN "uint16"
                 ELSE "uint32"
          /\ recon.ret.val.data = secret

\* ------------------------------------------- properties of the last claims
\* C24: for every modulus p >= 2, prime or composite, and every integer a,
\* modinv(a, p) either raises ZeroDivisionError or returns x with
\* (a * x) % p = 1; it raises whenever a has no inverse modulo p.
C24_ModinvInverseOrRaise ==
    (call.fn = "modinv" /\ call.args[2] >= 2)
    => \/ call.ret = Raise("ZeroDivisionError")
       \/ /\ call.ret.exc = "none"
          /\ (call.args[1] * call.ret.val) % call.args[2] = 1

\* C23: the modulus cmd_split derives when no --prime is given, the
\* recommended_prime of detect_image_properties for an image of maximum pixel
\* value m >= 0, is an odd integer, prime, and strictly greater than m.
C23_AutoPrimeOddPrime ==
    (/\ call.fn = "cmd_split"
     /\ call.args_prime = None
     /\ call.ret.props.max_value >= 0)
    => /\ call.ret.prime = <<call.ret.props.recommended_prime>>
       /\ call.ret.prime[1] % 2 = 1
       /\ IsPrimeNumber(call.ret.prime[1])
       /\ call.ret.prime[1] > call.ret.props.max_value

\* C21: on success split_image_into_shares returns a mapping with the keys
\* 1..n; each share has the shape of the secret array, every share element
\* lies in [0, prime), and the element at each position of share x is
\* (secret + c1*x + ... + c_{k-1}*x^(k-1)) mod prime for the coefficients
\* drawn for that position, each in [0, prime).
C21_SharesOfSplit ==
    (split.fn = "split_image_into_shares" /\ split.ret.exc = "none")
    => /\ DOMAIN split.ret.val = 1..split.n
       /\ \A x \in 1..split.n :
            /\ split.ret.val[x].shape = split.img_array.shape
            /\ Len(split.ret.val[x].data) = Len(split.img_array.data)
            /\ \A i \in 1..Len(split.img_array.data) :
                 /\ int_leq(int_of(0), split.ret.val[x].data[i])
                 /\ int_less(split.ret.val[x].data[i], split.prime)
                 /\ \A j \in 1..(split.k - 1) :
                      /\ int_leq(int_of(0), split.rnd[j][i])
                      /\ int_less(split.rnd[j][i], split.prime)
                 /\ split.ret.val[x].data[i]
                      = int_mod(poly_at(coeffs_at(split.img_array.data,
                                                  split.rnd, split.k, i),
                                        x, 1),
                                split.prime)

\* the product of f[j] over the indices j # i of xs
RECURSIVE ProdOthers(_, _, _)
ProdOthers(f, i, j) ==
    IF j > Len(f) THEN 1
    ELSE (IF j = i THEN 1 ELSE f[j]) * ProdOthers(f, i, j + 1)

\* the value at x of the polynomial with coefficients f[1], f[2], ...
RECURSIVE PolyValue(_, _, _)
PolyValue(f, x, j) ==
    IF j > Len(f) THEN 0 ELSE f[j] + x * PolyValue(f, x, j + 1)

RECURSIVE SumTo(_, _)
SumTo(f, m) == IF m = 0 THEN 0 ELSE f[m] + SumTo(f, m - 1)

\* the permutations of 1..m
Perms(m) == {pi \in [1..m -> 1..m] : \A i, j \in 1..m : i # j => pi[i] # pi[j]}

\* C22: for a prime p and xs pairwise distinct and nonzero mod p,
\* lagrange_coeffs_at_zero(xs, p) returns len(xs) coefficients in [0, p), in
\* the order of xs; coefficient i is (product over j # i of -x_j) times the
\* inverse of (product over j # i of (x_i - x_j)) mod p; permuting xs
\* permutes the coefficients the same way; and for every polynomial f of
\* degree < len(xs) the sum of f(x_i) * coefficient_i mod p is f(0).
C22_LagrangeCoefficients ==
    (/\ LagrangeDone
     /\ IsPrimeNumber(call.args[2])
     /\ ~SomeZeroMod(call.args[1], call.args[2])
     /\ ~SomeEqualMod(call.args[1], call.args[2]))
    => LET xs == call.args[1]
           p == call.args[2]
           m == Len(xs)
           c == call.ret.val
       IN /\ call.ret.exc = "none"
          /\ Len(c) = m
          /\ \A i \in 1..m :
               /\ c[i] \in 0..(p - 1)
               /\ (c[i] * ProdOthers([j \in 1..m |-> xs[i] - xs[j]], i, 1)) % p
                    = ProdOthers([j \in 1..m |-> 0 - xs[j]], i, 1) % p
          /\ \A pi \in Perms(m) :
               lagrange_coeffs_at_zero([i \in 1..m |-> xs[pi[i]]], p)
                 = Ret([i \in 1..m |-> c[pi[i]]])
          /\ \A f \in [1..m -> 0..(p - 1)] :
               SumTo([i \in 1..m |-> PolyValue(f, xs[i], 1) * c[i]], m) % p
                 = PolyValue(f, 0, 1) % p

\* three x-coordinates out of order, distinct and nonzero modulo 5, with
\* three different coefficients returned
C22_Witness ==
    /\ LagrangeDone
    /\ call.args[2] = 5
    /\ Len(call.args[1]) = 3
    /\ call.args[1][1] > call.args[1][2]
    /\ ~SomeZeroMod(call.args[1], call.args[2])
    /\ ~SomeEqualMod(call.args[1], call.args[2])
    /\ call.ret.exc = "none"
    /\ Len(call.ret.val) = 3
    /\ call.ret.val[1] # call.ret.val[2]
    /\ call.ret.val[2] # call.ret.val[3]
    /\ call.ret.val[1] # call.ret.val[3]

====
